---- MODULE Spec2Model ----
(***************************************************************************)
(* A model of ipano.py: the iPANO mount's serial protocol client.          *)
(*                                                                         *)
(* Text is a sequence of one-character strings.  A Python int is a record  *)
(* [mant, exp10] standing for mant * 10^exp10, so that the 30+ digit       *)
(* values that overflow the 33 character data field can be written down.   *)
(***************************************************************************)
EXTENDS Integers, Sequences, FiniteSets, TLC

VARIABLES
    pc,         \* "idle": no facade call is running; "reading": inside _communicate's read loop
    op,         \* the facade call in progress, or the last one: [name, args]
    written,    \* the frames handed to serial.write during that call, in order
    response,   \* _communicate's local accumulation buffer
    res,        \* the value the last _communicate of the call returned (response[6:-1])
    result,     \* how the facade call ended: [status, val]
    rx,         \* the serial port's input buffer (in_waiting = Len(rx))
    dev,        \* bytes the mount has decided to send and has not put on the line yet
    frame,      \* the reply the mount chose for the call's last reply-expecting request
    clean,      \* the line was silent (rx, dev empty) when that request was written
    reads,      \* reads of the current call that returned at least one byte (saturating)
    emptyRead,  \* a read of the current call returned zero bytes
    returned    \* reply-expecting requests of the current call that have returned

vars == <<pc, op, written, response, res, result, rx, dev, frame, clean, reads, emptyRead, returned>>

----------------------------------------------------------------------------
(* Bounds of the model.                                                    *)

MaxReads == 2
MaxFmtVal == 12
MaxFmtLen == 3
MaxFmtPrec == 1
MaxInstrLen == 4
MaxDataLen == 35
MaxAlt == 182
MaxAz == 362
MaxId == 3

----------------------------------------------------------------------------
(* Text helpers.                                                           *)

Min(a, b) == IF a < b THEN a ELSE b

Max(a, b) == IF a > b THEN a ELSE b

Digits == <<"0", "1", "2", "3", "4", "5", "6", "7", "8", "9">>

IsDigit(c) == \E i \in 1..10 : Digits[i] = c

DigitVal(c) == (CHOOSE i \in 1..10 : Digits[i] = c) - 1

Rep(c, n) == [i \in 1..n |-> c]

\* s[lo:hi] for 0 <= lo, 0 <= hi (Python clips both to len(s))
PySlice(s, lo, hi) == SubSeq(s, Min(lo, Len(s)) + 1, Min(hi, Len(s)))

\* s.endswith("#")
EndsWithHash(s) == Len(s) > 0 /\ s[Len(s)] = "#"

HasHash(s) == \E i \in 1..Len(s) : s[i] = "#"

RECURSIVE NatStr(_)
\* str(n) for a small n >= 0
NatStr(n) == IF n < 10 THEN <<Digits[n + 1]>> ELSE NatStr(n \div 10) \o <<Digits[(n % 10) + 1]>>

RECURSIVE DigitsVal(_)
DigitsVal(s) == IF s = <<>> THEN 0 ELSE 10 * DigitsVal(SubSeq(s, 1, Len(s) - 1)) + DigitVal(s[Len(s)])

RECURSIVE Join(_)
\* "".join(str(d) for d in data), data a sequence of text fragments
Join(data) == IF data = <<>> THEN <<>> ELSE Head(data) \o Join(Tail(data))

----------------------------------------------------------------------------
(* Python integers.                                                        *)

PyInt(m, e) == [mant |-> m, exp10 |-> IF m = 0 THEN 0 ELSE e]

IsNeg(v) == v.mant < 0

PyAbs(v) == [v EXCEPT !.mant = IF v.mant < 0 THEN -v.mant ELSE v.mant]

\* val * 10**precision
Scale(v, precision) == PyInt(v.mant, v.exp10 + precision)

\* str(v) for v >= 0
DecStr(v) == IF v.mant = 0 THEN <<"0">> ELSE NatStr(v.mant) \o Rep("0", v.exp10)

\* The value as a machine integer where it is small; otherwise a number beyond
\* every constant the program compares against (180, 360).
Saturated(v) == IF v.exp10 <= 3 THEN v.mant * (10 ^ v.exp10) ELSE (IF v.mant < 0 THEN -1000000 ELSE 1000000)

ZeroPad(s, width) == Rep("0", Max(width - Len(s), 0)) \o s

\* f"{v:0{width}}": the width counts a minus sign, the zeros go after it
FormatZero(v, width) == IF IsNeg(v) THEN <<"-">> \o ZeroPad(DecStr(PyAbs(v)), width - 1) ELSE ZeroPad(DecStr(v), width)

_fmt(val, length, precision, sign) ==
    LET s == IF sign THEN (IF IsNeg(val) THEN <<"-">> ELSE <<"+">>) ELSE <<>>
        v == IF sign THEN PyAbs(val) ELSE val
    IN  s \o FormatZero(Scale(v, precision), length)

----------------------------------------------------------------------------
(* Enumerations: member name |-> wire code.                                *)

DIRECTION == [LEFT |-> "l", RIGHT |-> "r", UP |-> "u", DOWN |-> "d"]

POSITION == [UPPER_LEFT |-> "0", LOWER_LEFT |-> "1", LOWER_RIGHT |-> "2", UPPER_RIGHT |-> "3", CENTER |-> "4"]

IMAGING_PATH == [HORIZONTAL_ALTERNATING_DOWN |-> "0", HORIZONTAL_ALTERNATING_UP |-> "1", VERTICAL_ALTERNATING_RIGHT |-> "2", VERTICAL_ALTERNATING_LEFT |-> "3", HORIZONTAL_NONALTERNATING_DOWN |-> "4", HORIZONTAL_NONALTERNATING_UP |-> "5", VERTICAL_NONALTERNATING_RIGHT |-> "6", VERTICAL_NONALTERNATING_LEFT |-> "7"]

TIMING_PARAMETER == [DELAYED_START |-> "0", TIME_INTERVAL |-> "1", TIME_LAPSE_TIME_INTERVAL |-> "2"]

SHOOTING_CONTROL == [EXIT |-> "0", PAUSE |-> "1", RESUMING |-> "2", TIGGERING |-> "3", PREVIOUS |-> "4", NEXT |-> "5"]

STATUS == [STOPPED |-> "0", MOVING |-> "1", WAITING |-> "2", DELAYING |-> "3", PAUSED |-> "4", SHOOTING |-> "5"]

PANORAMA_MODE == [PREVIEW |-> "0", MATRIX |-> "1", THREE_SIXTY |-> "2", TIME_LAPSE |-> "3"]

\* Enum(value): the text is the value of a member
EnumHas(E, text) == Len(text) = 1 /\ \E n \in DOMAIN E : E[n] = text[1]

EnumMember(E, text) == CHOOSE n \in DOMAIN E : E[n] = text[1]

----------------------------------------------------------------------------
(* How a call ends.                                                        *)

Call(name, args) == [name |-> name, args |-> args]

Pending == [status |-> "pending", val |-> <<>>]

Ok(v) == [status |-> "ok", val |-> v]

\* an exception leaves the facade call
Raised(e) == [status |-> e, val |-> <<>>]

PyNone == <<"None">>

----------------------------------------------------------------------------
(* Reply decoding.                                                         *)

\* int(text) / float(text) succeed: an optional sign and at least one digit
\* (the texts of this model hold digits, signs, letters and '#' only)
NumberOK(text) ==
    LET body == IF Len(text) > 0 /\ text[1] \in {"+", "-"} THEN Tail(text) ELSE text
    IN  Len(body) > 0 /\ \A i \in 1..Len(body) : IsDigit(body[i])

NumberVal(text) ==
    LET neg == text[1] = "-"
        body == IF text[1] \in {"+", "-"} THEN Tail(text) ELSE text
    IN  IF neg THEN -DigitsVal(body) ELSE DigitsVal(body)

\* an unknown code decoded to a default member
DecodeEnum_default(E, text) == IF EnumHas(E, text) THEN Ok(<<EnumMember(E, text)>>) ELSE Ok(<<CHOOSE n \in DOMAIN E : E[n] = "0">>)

\* STATUS(res[-1]) / PANORAMA_MODE(res): the member, or ValueError
DecodeEnum(E, text) == IF EnumHas(E, text) THEN Ok(<<EnumMember(E, text)>>) ELSE Raised("ValueError")

\* status(): alt and az are kept in hundredths of a degree (the float / 100)
status_decode(r) ==
    LET a == PySlice(r, 0, 6)
        z == PySlice(r, 6, Max(Len(r) - 1, 0))
        m == IF r = <<>> THEN Raised("IndexError") ELSE DecodeEnum(STATUS, <<r[Len(r)]>>)
    IN  IF ~NumberOK(a) \/ ~NumberOK(z) THEN Raised("ValueError")
        ELSE IF m.status # "ok" THEN m
        ELSE Ok(<<NumberVal(a), NumberVal(z), m.val[1]>>)

check_last_decode(r) == DecodeEnum(PANORAMA_MODE, r)

get_progress_decode(r) ==
    LET a == PySlice(r, 0, 5)
        b == PySlice(r, 5, Len(r))
    IN  IF NumberOK(a) /\ NumberOK(b) THEN Ok(<<NumberVal(a), NumberVal(b)>>) ELSE Raised("ValueError")

get_step_decode(r) ==
    LET a == PySlice(r, 0, 6)
        b == PySlice(r, 6, Len(r))
    IN  IF NumberOK(a) /\ NumberOK(b) THEN Ok(<<NumberVal(a), NumberVal(b)>>) ELSE Raised("ValueError")

\* int(res); get_fov keeps tenths (the float / 10)
number_decode(r) == IF NumberOK(r) THEN Ok(<<NumberVal(r)>>) ELSE Raised("ValueError")

firmware_decode(r) == Ok(<<PySlice(r, 0, 6), PySlice(r, 6, Len(r))>>)

\* what the facade operation makes of the payload its last request returned
Decode(o, r) ==
    CASE o.name = "firmware" -> firmware_decode(r)
      [] o.name \in {"mount_type", "_communicate"} -> Ok(<<r>>)
      [] o.name = "get_step" -> get_step_decode(r)
      [] o.name \in {"get_timing", "battery", "get_fov"} -> number_decode(r)
      [] o.name = "status" -> status_decode(r)
      [] o.name = "check_last" -> check_last_decode(r)
      [] o.name = "get_progress" -> get_progress_decode(r)
      [] OTHER -> Ok(<<>>)

----------------------------------------------------------------------------
(* The mount: the replies it may choose for a request.                     *)

Header == Rep("A", 6)

ProgressPayload == <<"0", "0", "0", "1", "0", "0", "0", "0", "2", "0">>

StatusPayload(head, code) == <<head, "1", "8", "0", "0", "5", "+", "0", "1", "2", "0", "0", code>>

\* a reply the protocol allows: header, payload, terminator
ReplyFrame(payload) == Header \o payload \o <<"#">>

\* replies that break the framing: a '#' inside the header, a '#' inside the
\* payload, bytes after the terminator, no terminator, nothing at all
BrokenFrames ==
    { <<"A", "A", "A", "A", "A", "#", "0", "#">>,
      Header \o <<"0", "#", "1", "#">>,
      Header \o <<"0", "#", "1">>,
      Header \o <<"0">>,
      <<>> }

CodeFrames == {ReplyFrame(p) : p \in {<<>>, <<"0">>, <<"3">>, <<"5">>, <<"A">>, <<"0", "7">>}} \cup BrokenFrames

StatusFrames ==
    {ReplyFrame(StatusPayload("0", c)) : c \in {"0", "5", "6", "A"}}
    \cup {ReplyFrame(StatusPayload("A", "0")), ReplyFrame(<<"0">>), ReplyFrame(<<>>), Header \o <<"0">>}

ProgressFrames == {ReplyFrame(ProgressPayload), ReplyFrame(<<"0">>), ReplyFrame(<<>>)} \cup BrokenFrames

AckFrames == {ReplyFrame(<<>>)}

SetterFrames == {ReplyFrame(<<>>), <<"A", "A", "A", "A", "A", "#", "0", "#">>, Header \o <<"0">>}

----------------------------------------------------------------------------
(* _communicate                                                            *)

BadInstruction(instruction) == Len(instruction) # 3

\* the limit off by one
DataTooLong_off(data) == Len(data) > 34

DataTooLong(data) == Len(data) > 33

\* f":01{instruction}{data}#"
Message(instruction, data) == <<":", "0", "1">> \o instruction \o data \o <<"#">>

\* the loop left on any byte at all
LoopDone_any(buffer) == buffer # <<>>

\* the loop left on a '#' anywhere in the buffer
LoopDone_seen(buffer) == HasHash(buffer)

\* while not response.endswith("#")
LoopDone(buffer) == EndsWithHash(buffer)

\* the terminator kept: response[6:]
Payload_keep(buffer) == PySlice(buffer, 6, Len(buffer))

\* response[6:-1]
Payload(buffer) == PySlice(buffer, 6, Max(Len(buffer) - 1, 0))

\* The call of _communicate up to the read loop, made by facade call o when w
\* is what the call has written so far, k requests of it have returned and r
\* is the payload of the last one; f is the reply the mount chooses.
_communicate(o, w, k, r, instruction, data, output, f) ==
    LET text == Join(data)
    IN  /\ op' = o
        /\ returned' = k
        /\ res' = r
        /\ response' = <<>>
        /\ reads' = (IF k = 0 THEN 0 ELSE reads)
        /\ emptyRead' = (k # 0 /\ emptyRead)
        /\ rx' = rx
        /\ IF BadInstruction(instruction) \/ DataTooLong(text)
           THEN /\ written' = w
                /\ pc' = "idle"
                /\ result' = Raised("BadParameter")
                /\ dev' = dev
                /\ frame' = <<>>
                /\ clean' = TRUE
           ELSE /\ written' = Append(w, Message(instruction, text))
                /\ IF output
                   THEN /\ pc' = "reading"
                        /\ result' = Pending
                        /\ dev' = dev \o f
                        /\ frame' = f
                        /\ clean' = (rx = <<>> /\ dev = <<>>)
                   ELSE /\ pc' = "idle"
                        /\ result' = Ok(<<>>)
                        /\ dev' = dev
                        /\ frame' = <<>>
                        /\ clean' = TRUE

\* a facade call raises before it calls _communicate
Raise(o, e) ==
    /\ op' = o
    /\ pc' = "idle"
    /\ written' = <<>>
    /\ result' = Raised(e)
    /\ returned' = 0
    /\ res' = <<>>
    /\ response' = <<>>
    /\ reads' = 0
    /\ emptyRead' = FALSE
    /\ frame' = <<>>
    /\ clean' = TRUE
    /\ UNCHANGED <<rx, dev>>

\* a facade call starts: the caller is not inside another one; callers of this
\* model call on a silent line (no byte of an earlier reply is still to be read)
CanCall == pc = "idle" /\ rx = <<>> /\ dev = <<>>

\* a facade call's first (mostly only) call of _communicate
Start(o, instruction, data, output, f) == _communicate(o, <<>>, 0, <<>>, instruction, data, output, f)

\* one turn of the read loop: response += serial.read(serial.in_waiting)
Read ==
    /\ pc = "reading"
    /\ ~LoopDone(response)
    /\ response' = response \o rx
    /\ rx' = <<>>
    /\ reads' = (IF rx = <<>> THEN reads ELSE Min(reads + 1, MaxReads))
    /\ emptyRead' = (emptyRead \/ rx = <<>>)
    /\ UNCHANGED <<pc, op, written, res, result, dev, frame, clean, returned>>

\* the mount puts its next byte on the line
Deliver ==
    /\ dev # <<>>
    /\ rx' = Append(rx, Head(dev))
    /\ dev' = Tail(dev)
    /\ UNCHANGED <<pc, op, written, response, res, result, frame, clean, reads, emptyRead, returned>>

----------------------------------------------------------------------------
(* The facade: one action per operation, up to its first read.             *)

LowerChar(c) ==
    CASE c = "A" -> "a" [] c = "Z" -> "z" [] c = "L" -> "l" [] c = "T" -> "t"
      [] c = "N" -> "n" [] c = "O" -> "o" [] c = "E" -> "e" [] OTHER -> c

\* axis.lower()
Lower(text) == [i \in 1..Len(text) |-> LowerChar(text[i])]

\* a str passed as data is joined character by character
Chars(text) == [i \in 1..Len(text) |-> <<text[i]>>]

firmware(f) == CanCall /\ Start(Call("firmware", <<>>), <<"F", "W", "0">>, <<>>, TRUE, f)

mount_type(f) == CanCall /\ Start(Call("mount_type", <<>>), <<"I", "N", "F">>, <<>>, TRUE, f)

shutter_test(f) == CanCall /\ Start(Call("shutter_test", <<>>), <<"S", "H", "T">>, <<>>, TRUE, f)

goto_zero_position(f) == CanCall /\ Start(Call("goto_zero_position", <<>>), <<"S", "P", "Z">>, Chars(<<"0">>), TRUE, f)

set_zero_position(f) == CanCall /\ Start(Call("set_zero_position", <<>>), <<"S", "P", "Z">>, Chars(<<"1">>), TRUE, f)

get_step(f) == CanCall /\ Start(Call("get_step", <<>>), <<"G", "T", "L">>, <<>>, TRUE, f)

status(f) == CanCall /\ Start(Call("status", <<>>), <<"G", "A", "S">>, <<>>, TRUE, f)

get_fov(f) == CanCall /\ Start(Call("get_fov", <<>>), <<"G", "F", "V">>, <<>>, TRUE, f)

repeat_last(f) == CanCall /\ Start(Call("repeat_last", <<>>), <<"S", "R", "E">>, <<>>, TRUE, f)

check_last(f) == CanCall /\ Start(Call("check_last", <<>>), <<"G", "R", "E">>, <<>>, TRUE, f)

get_progress(f) == CanCall /\ Start(Call("get_progress", <<>>), <<"G", "P", "G">>, <<>>, TRUE, f)

battery(f) == CanCall /\ Start(Call("battery", <<>>), <<"G", "P", "W">>, <<>>, TRUE, f)

\* move waiting for a reply like every other operation
move_wait(dir) == CanCall /\ Start(Call("move", <<dir>>), <<"m", "v", DIRECTION[dir]>>, <<>>, TRUE, ReplyFrame(<<>>))

move(dir) == CanCall /\ Start(Call("move", <<dir>>), <<"m", "v", DIRECTION[dir]>>, <<>>, FALSE, <<>>)

stop(axis, f) ==
    CanCall /\
    LET o == Call("stop", <<axis>>)
    IN  IF axis = PyNone \/ Lower(axis) = <<"n", "o", "n", "e">> THEN Start(o, <<"m", "q", "q">>, <<>>, TRUE, f)
        ELSE IF Lower(axis) = <<"a", "z">> THEN Start(o, <<"q", "A", "Z">>, <<>>, TRUE, f)
        ELSE IF Lower(axis) = <<"a", "l", "t">> THEN Start(o, <<"q", "A", "L">>, <<>>, TRUE, f)
        ELSE Raise(o, "BadParameter")

\* the upper bounds taken as exclusive
goto_exclusive(alt, az, f) ==
    CanCall /\
    LET o == Call("goto", <<alt, az>>)
    IN  IF Saturated(alt) < -180 \/ Saturated(alt) >= 180 THEN Raise(o, "BadParameter")
        ELSE IF Saturated(az) < 0 \/ Saturated(az) >= 360 THEN Raise(o, "BadParameter")
        ELSE Start(o, <<"S", "S", "L">>, <<_fmt(alt, 5, 2, TRUE), _fmt(az, 5, 2, FALSE)>>, TRUE, f)

goto(alt, az, f) ==
    CanCall /\
    LET o == Call("goto", <<alt, az>>)
    IN  IF Saturated(alt) < -180 \/ Saturated(alt) > 180 THEN Raise(o, "BadParameter")
        ELSE IF Saturated(az) < 0 \/ Saturated(az) > 360 THEN Raise(o, "BadParameter")
        ELSE Start(o, <<"S", "S", "L">>, <<_fmt(alt, 5, 2, TRUE), _fmt(az, 5, 2, FALSE)>>, TRUE, f)

\* the id sent as it is, 1 included
set_reference_point_direct(id, f) ==
    CanCall /\
    LET o == Call("set_reference_point", <<id>>)
    IN  IF id \in 0..2 THEN Start(o, <<"S", "O", "P">>, Chars(NatStr(id)), TRUE, f)
        ELSE Raise(o, "BadParameter")

set_reference_point(id, f) ==
    CanCall /\
    LET o == Call("set_reference_point", <<id>>)
    IN  IF id = 0 THEN Start(o, <<"S", "O", "P">>, Chars(<<"0">>), TRUE, f)
        ELSE IF id = 2 THEN Start(o, <<"S", "O", "P">>, Chars(<<"1">>), TRUE, f)
        ELSE Raise(o, "BadParameter")

\* id is <<"POSITION", member>> or <<"IMAGING_PATH", member>>
IdValue(id) == IF id[1] = "POSITION" THEN POSITION[id[2]] ELSE IMAGING_PATH[id[2]]

start_panorama(mode, id, f) == CanCall /\ Start(Call("start_panorama", <<mode, id>>), <<"S", "P", "A">>, <<<<PANORAMA_MODE[mode]>>, <<IdValue(id)>>>>, TRUE, f)

\* set_timelapse's first request; its second one is made when this one returns
set_timelapse(N, ang, f) == CanCall /\ Start(Call("set_timelapse", <<N, ang>>), <<"S", "T", "L">>, <<NatStr(0), _fmt(N, 5, 0, FALSE)>>, TRUE, f)

set_timelapse_second(o, w, r, f) == _communicate(o, w, 1, r, <<"S", "T", "L">>, <<NatStr(1), _fmt(o.args[2], 3, 1, TRUE)>>, TRUE, f)

set_timing(mode, seconds, f) == CanCall /\ Start(Call("set_timing", <<mode, seconds>>), <<"S", "T", "T">>, <<<<TIMING_PARAMETER[mode]>>, _fmt(seconds, 7, 0, FALSE)>>, TRUE, f)

get_timing(mode, f) == CanCall /\ Start(Call("get_timing", <<mode>>), <<"G", "T", "T">>, Chars(<<TIMING_PARAMETER[mode]>>), TRUE, f)

shooting_control(cmd, f) == CanCall /\ Start(Call("shooting_control", <<cmd>>), <<"S", "P", "C">>, Chars(<<SHOOTING_CONTROL[cmd]>>), TRUE, f)

set_fov(fov, f) == CanCall /\ Start(Call("set_fov", <<fov>>), <<"S", "F", "V">>, Chars(_fmt(fov, 4, 1, FALSE)), TRUE, f)

\* the read loop is left: _communicate returns response[6:-1] and the facade
\* operation goes on with it
Return(f) ==
    /\ pc = "reading"
    /\ LoopDone(response)
    /\ IF op.name = "set_timelapse" /\ returned = 0
       THEN set_timelapse_second(op, written, Payload(response), f)
       ELSE /\ pc' = "idle"
            /\ res' = Payload(response)
            /\ returned' = returned + 1
            /\ result' = Decode(op, Payload(response))
            /\ UNCHANGED <<op, written, response, rx, dev, frame, clean, reads, emptyRead>>

\* the handle is discarded (__del__ closes the port) and a new one is made
\* (__init__ opens it, which empties the port's input buffer)
Reconnect ==
    /\ pc = "idle"
    /\ op' = Call("__init__", <<>>)
    /\ written' = <<>>
    /\ response' = <<>>
    /\ res' = <<>>
    /\ result' = Ok(<<>>)
    /\ rx' = <<>>
    /\ reads' = 0
    /\ emptyRead' = FALSE
    /\ returned' = 0
    /\ frame' = <<>>
    /\ clean' = TRUE
    /\ UNCHANGED <<pc, dev>>

----------------------------------------------------------------------------
(* Arguments the callers of the model pass.                                *)

AxisArgs == {PyNone, <<"n", "o", "n", "e">>, <<"N", "o", "n", "e">>, <<"a", "z">>, <<"A", "Z">>, <<"a", "l", "t">>, <<"A", "l", "t">>, <<"a">>, <<>>}

GotoEdge == {<<PyInt(a, 0), PyInt(z, 0)>> : a \in {-181, -180, 5, 180, 181}, z \in {-1, 0, 360, 361}}

GotoFull ==
    {<<PyInt(a, 0), PyInt(0, 0)>> : a \in (-MaxAlt)..MaxAlt}
    \cup {<<PyInt(0, 0), PyInt(z, 0)>> : z \in (360 - MaxAz)..MaxAz}
    \cup GotoEdge

PanoramaIds == {<<"POSITION", n>> : n \in DOMAIN POSITION} \cup {<<"IMAGING_PATH", n>> : n \in DOMAIN IMAGING_PATH}

TimelapseN == {PyInt(7, 0), PyInt(1, 31), PyInt(1, 32)}

TimelapseAng == {PyInt(0, 0), PyInt(-5, 0), PyInt(1, 29), PyInt(1, 30), PyInt(-1, 30)}

TimingSeconds == {PyInt(15, 0), PyInt(-5, 0), PyInt(1, 31), PyInt(1, 32)}

FovArgs == {PyInt(45, 0), PyInt(-3, 0), PyInt(1, 31), PyInt(1, 32)}

----------------------------------------------------------------------------
(* The client on a line with the mount.                                    *)

Init ==
    /\ pc = "idle"
    /\ op = Call("__init__", <<>>)
    /\ written = <<>>
    /\ response = <<>>
    /\ res = <<>>
    /\ result = Ok(<<>>)
    /\ rx = <<>>
    /\ dev = <<>>
    /\ frame = <<>>
    /\ clean = TRUE
    /\ reads = 0
    /\ emptyRead = FALSE
    /\ returned = 0

Next ==
    \/ \E f \in ProgressFrames : firmware(f)
    \/ \E f \in CodeFrames : mount_type(f)
    \/ \E f \in SetterFrames : shutter_test(f)
    \/ \E f \in SetterFrames : goto_zero_position(f)
    \/ \E f \in SetterFrames : set_zero_position(f)
    \/ \E f \in ProgressFrames : get_step(f)
    \/ \E f \in StatusFrames : status(f)
    \/ \E f \in CodeFrames : get_fov(f)
    \/ \E f \in SetterFrames : repeat_last(f)
    \/ \E f \in CodeFrames : check_last(f)
    \/ \E f \in ProgressFrames : get_progress(f)
    \/ \E f \in CodeFrames : battery(f)
    \/ \E dir \in DOMAIN DIRECTION : move(dir)
    \/ \E axis \in AxisArgs, f \in SetterFrames : stop(axis, f)
    \/ \E a \in GotoEdge, f \in SetterFrames : goto(a[1], a[2], f)
    \/ \E id \in (-1)..MaxId, f \in SetterFrames : set_reference_point(id, f)
    \/ \E mode \in DOMAIN PANORAMA_MODE, id \in PanoramaIds, f \in AckFrames : start_panorama(mode, id, f)
    \/ \E N \in TimelapseN, ang \in TimelapseAng, f \in SetterFrames : set_timelapse(N, ang, f)
    \/ \E mode \in DOMAIN TIMING_PARAMETER, seconds \in TimingSeconds, f \in SetterFrames : set_timing(mode, seconds, f)
    \/ \E mode \in DOMAIN TIMING_PARAMETER, f \in CodeFrames : get_timing(mode, f)
    \/ \E cmd \in DOMAIN SHOOTING_CONTROL, f \in SetterFrames : shooting_control(cmd, f)
    \/ \E fov \in FovArgs, f \in SetterFrames : set_fov(fov, f)
    \/ Read
    \/ Deliver
    \/ \E f \in SetterFrames : Return(f)
    \/ Reconnect

Spec == Init /\ [][Next]_vars

----------------------------------------------------------------------------
(* Claims checked under Spec.                                              *)

AtRest == pc = "idle"

ReadsMade == reads > 0 \/ emptyRead

\* C1: a facade call that ends in a parameter error (BadParameter) has written
\* nothing to the transport.
C1_NoWriteOnParameterError == (AtRest /\ result.status = "BadParameter") => written = <<>>

MoveFrame(dir) ==
    CASE dir = "LEFT" -> <<":", "0", "1", "m", "v", "l", "#">>
      [] dir = "RIGHT" -> <<":", "0", "1", "m", "v", "r", "#">>
      [] dir = "UP" -> <<":", "0", "1", "m", "v", "u", "#">>
      [] dir = "DOWN" -> <<":", "0", "1", "m", "v", "d", "#">>

\* C3: move(dir) writes exactly the frame ":01mv" + l/r/u/d + "#", reads nothing
\* and returns at once; every other facade operation that wrote a frame is in
\* its read loop or has read (each of its frames was followed by a read that
\* let its request return).
C3_MoveFireAndForget ==
    /\ op.name = "move" =>
          /\ AtRest
          /\ written = <<MoveFrame(op.args[1])>>
          /\ ~ReadsMade
          /\ returned = 0
          /\ result = Ok(<<>>)
    /\ (op.name # "move" /\ AtRest /\ result.status # "BadParameter" /\ written # <<>>) =>
          /\ ReadsMade
          /\ returned = Len(written)
    /\ (op.name # "move" /\ pc = "reading") => returned = Len(written) - 1

C3_Witness == op.name = "move" /\ op.args[1] = "LEFT" /\ AtRest /\ written = <<<<":", "0", "1", "m", "v", "l", "#">>>>

\* C6: set_reference_point(0) writes ":01SOP0#", set_reference_point(2) writes
\* ":01SOP1#", every other id ends in BadParameter with nothing written.
C6_ReferencePoint ==
    op.name = "set_reference_point" =>
        LET id == op.args[1]
        IN  IF id = 0 THEN written = <<<<":", "0", "1", "S", "O", "P", "0", "#">>>>
            ELSE IF id = 2 THEN written = <<<<":", "0", "1", "S", "O", "P", "1", "#">>>>
            ELSE AtRest /\ result = Raised("BadParameter") /\ written = <<>>

C6_Witness == op.name = "set_reference_point" /\ op.args[1] = 2 /\ AtRest /\ result = Ok(<<>>) /\ written = <<<<":", "0", "1", "S", "O", "P", "1", "#">>>>

StatusOf(code) ==
    CASE code = "0" -> "STOPPED" [] code = "1" -> "MOVING" [] code = "2" -> "WAITING"
      [] code = "3" -> "DELAYING" [] code = "4" -> "PAUSED" [] code = "5" -> "SHOOTING"

ModeOf(code) == CASE code = "0" -> "PREVIEW" [] code = "1" -> "MATRIX" [] code = "2" -> "THREE_SIXTY" [] code = "3" -> "TIME_LAPSE"

\* C7: status() returns a mode only when the payload's last character is one of
\* '0'..'5', and then the mode of that code; check_last() returns a mode only
\* when the payload is one of "0".."3", and then the mode of that code; on any
\* other code the operation ends in an error and returns no value.
C7_NoDefaultVariant ==
    /\ (AtRest /\ op.name = "status" /\ returned = 1) =>
          IF res # <<>> /\ res[Len(res)] \in {"0", "1", "2", "3", "4", "5"}
          THEN result.status = "ok" => result.val[3] = StatusOf(res[Len(res)])
          ELSE result.status \notin {"ok", "pending"} /\ result.val = <<>>
    /\ (AtRest /\ op.name = "check_last" /\ returned = 1) =>
          IF res \in {<<"0">>, <<"1">>, <<"2">>, <<"3">>}
          THEN result = Ok(<<ModeOf(res[1])>>)
          ELSE result.status \notin {"ok", "pending"} /\ result.val = <<>>

C7_Witness == AtRest /\ op.name = "status" /\ returned = 1 /\ result.status = "ok" /\ result.val[3] = "SHOOTING"

\* the reply frame as the claim describes it: 6 header characters, a payload
\* without '#', then '#'
FrameShape(f) == Len(f) >= 7 /\ f[Len(f)] = "#" /\ \A i \in 7..(Len(f) - 1) : f[i] # "#"

ProgressReply == <<"A", "A", "A", "A", "A", "A", "0", "0", "0", "1", "0", "0", "0", "0", "2", "0", "#">>

\* C5 as stated: when the mount sends exactly one reply frame (6 header
\* characters, a payload without '#', then '#') on a silent line, _communicate
\* returns characters [6:-1] of the frame however the bytes are split across
\* reads; get_progress() on "AAAAAA0001000020#" returns (10, 20).
C5_PayloadOfFrame ==
    /\ (AtRest /\ returned >= 1 /\ clean /\ FrameShape(frame)) => res = SubSeq(frame, 7, Len(frame) - 1)
    /\ (AtRest /\ returned = 1 /\ op.name = "get_progress" /\ frame = ProgressReply) => result = Ok(<<10, 20>>)

\* C5 amended: the same, for a frame whose 6 header characters hold no '#'
\* either.
C5_PayloadOfHashFreeFrame ==
    /\ (AtRest /\ returned >= 1 /\ clean /\ FrameShape(frame) /\ ~HasHash(SubSeq(frame, 1, 6))) => res = SubSeq(frame, 7, Len(frame) - 1)
    /\ (AtRest /\ returned = 1 /\ op.name = "get_progress" /\ frame = ProgressReply) => result = Ok(<<10, 20>>)

C5_Witness == AtRest /\ returned = 1 /\ op.name = "get_progress" /\ frame = ProgressReply /\ reads >= 2 /\ emptyRead /\ result = Ok(<<10, 20>>)

\* C9: while a reply-expecting request is outstanding (the caller is in the read
\* loop and the accumulated reply does not end with '#') nothing is written; so
\* set_timelapse writes its second STL frame only once the reply to the first
\* has been read up to its terminator.
C9_SingleFlight == [][(pc = "reading" /\ ~EndsWithHash(response)) => written' = written]_vars

C9_Witness == op.name = "set_timelapse" /\ pc = "reading" /\ returned = 1 /\ Len(written) = 2 /\ written[1][7] = "0" /\ written[2][7] = "1"

----------------------------------------------------------------------------
(* The read loop under fair scheduling: the caller's thread keeps running    *)
(* (Read, Return) and the line keeps carrying what the mount sends (Deliver).*)

ReturnAny == \E f \in SetterFrames : Return(f)

LiveSpec == Init /\ [][Next]_vars /\ WF_vars(Read) /\ WF_vars(Deliver) /\ WF_vars(ReturnAny)

\* bytes of the reply not yet in the accumulation buffer, and the buffer
Incoming == response \o rx \o dev

\* C10: a request returns only after a read that left the buffer ending with
\* '#'; while no '#' is in the buffer or on its way the request does not
\* return; and when the last byte on its way (or in the buffer) is '#', the
\* request eventually returns.
C10_ReadLoop ==
    /\ [][returned' = returned + 1 => (pc = "reading" /\ ReadsMade /\ EndsWithHash(response))]_vars
    /\ [][(pc = "reading" /\ ~HasHash(Incoming)) => (pc' = "reading" /\ returned' = returned)]_vars
    /\ \A k \in 0..1 : (pc = "reading" /\ returned = k /\ EndsWithHash(Incoming)) ~> (returned = k + 1)

C10_Witness == AtRest /\ returned = 1 /\ op.name = "battery" /\ frame = Header \o <<"0", "#", "1", "#">> /\ res = <<"0", "#", "1">> /\ emptyRead

----------------------------------------------------------------------------
(* _communicate called with any instruction and data.                      *)

communicate(instruction, data, output, f) == CanCall /\ Start(Call("_communicate", <<instruction, data, output>>), instruction, data, output, f)

Instructions == {Rep("G", n) : n \in 0..MaxInstrLen} \cup {<<"G", "P", "W">>, <<"m", "v", "l">>}

DataArgs == {<<Rep("7", n)>> : n \in 0..MaxDataLen} \cup {<<Rep("7", n), <<"1">>>> : n \in 0..MaxDataLen}

\* the handle is a new one: nothing was called on it yet
Fresh == op.name = "__init__"

\* one call on each new handle
NextComm ==
    \/ \E instruction \in Instructions, data \in DataArgs, output \in BOOLEAN : Fresh /\ communicate(instruction, data, output, ReplyFrame(<<"0">>))
    \/ Read
    \/ Deliver
    \/ ReturnAny
    \/ Reconnect

SpecComm == Init /\ [][NextComm]_vars

\* C2: _communicate with an instruction of length other than 3, or with data
\* longer than 33 characters, ends in an error with nothing written; otherwise
\* it writes exactly one frame, ":01" + instruction + data + "#", of 7 to 40
\* characters.
C2_Communicate ==
    op.name = "_communicate" =>
        LET instruction == op.args[1]
            text == Join(op.args[2])
        IN  IF Len(instruction) # 3 \/ Len(text) > 33
            THEN AtRest /\ result = Raised("BadParameter") /\ written = <<>>
            ELSE /\ result.status # "BadParameter"
                 /\ written = <<(<<":", "0", "1">> \o instruction \o text \o <<"#">>)>>
                 /\ Len(written[1]) \in 7..40
                 /\ written[1][1] = ":" /\ written[1][2] = "0" /\ written[1][3] = "1"
                 /\ written[1][Len(written[1])] = "#"

C2_Witness == op.name = "_communicate" /\ AtRest /\ returned = 1 /\ Len(Join(op.args[2])) = 33 /\ Len(written) = 1 /\ Len(written[1]) = 40

----------------------------------------------------------------------------
(* goto over its whole range.                                              *)

\* one call on each new handle
NextGoto ==
    \/ \E a \in GotoFull, f \in AckFrames : Fresh /\ goto(a[1], a[2], f)
    \/ Read
    \/ Deliver
    \/ ReturnAny
    \/ Reconnect

SpecGoto == Init /\ [][NextGoto]_vars

\* the 5 decimal digits of n, 0 <= n < 100000
FiveDigits(n) == <<Digits[((n \div 10000) % 10) + 1], Digits[((n \div 1000) % 10) + 1], Digits[((n \div 100) % 10) + 1], Digits[((n \div 10) % 10) + 1], Digits[(n % 10) + 1]>>

\* C4: goto(alt, az) ends in BadParameter with nothing written when alt < -180,
\* alt > 180, az < 0 or az > 360; otherwise it writes one SSL frame whose 11
\* data characters are the sign of alt, |alt|*100 on 5 digits, az*100 on 5
\* digits.
C4_Goto ==
    op.name = "goto" =>
        LET alt == op.args[1].mant
            az == op.args[2].mant
        IN  IF alt < -180 \/ alt > 180 \/ az < 0 \/ az > 360
            THEN AtRest /\ result = Raised("BadParameter") /\ written = <<>>
            ELSE /\ result.status # "BadParameter"
                 /\ Len(written) = 1
                 /\ Len(written[1]) = 18
                 /\ written[1] = <<":", "0", "1", "S", "S", "L">> \o <<(IF alt < 0 THEN "-" ELSE "+")>> \o FiveDigits((IF alt < 0 THEN -alt ELSE alt) * 100) \o FiveDigits(az * 100) \o <<"#">>

C4_Witness == op.name = "goto" /\ op.args[1].mant = -180 /\ op.args[2].mant = 360 /\ AtRest /\ returned = 1 /\ written = <<<<":", "0", "1", "S", "S", "L", "-", "1", "8", "0", "0", "0", "3", "6", "0", "0", "0", "#">>>>

----------------------------------------------------------------------------
(* _fmt on its own.                                                        *)

fmt(val, length, precision, sign) ==
    /\ AtRest
    /\ op' = Call("_fmt", <<val, length, precision, sign>>)
    /\ result' = Ok(<<_fmt(val, length, precision, sign)>>)
    /\ UNCHANGED <<pc, written, response, res, rx, dev, frame, clean, reads, emptyRead, returned>>

NextFmt == \E v \in (-MaxFmtVal)..MaxFmtVal, length \in 1..MaxFmtLen, precision \in 0..MaxFmtPrec, sign \in BOOLEAN : fmt(PyInt(v, 0), length, precision, sign)

SpecFmt == Init /\ [][NextFmt]_vars

\* C8: _fmt(val, length, precision, sign) over integers: unsigned with val < 0
\* is an error and yields no digit string; unsigned with 0 <= val < 10^length
\* (and no scaling) yields exactly length digits that parse back to val; signed
\* yields '+' or '-' and then |val| * 10^precision zero-padded to length digits.
C8_Fmt ==
    op.name = "_fmt" =>
        LET val == op.args[1].mant
            length == op.args[2]
            precision == op.args[3]
            sign == op.args[4]
            mag == IF val < 0 THEN -val ELSE val
        IN  /\ (~sign /\ val < 0) => result.status # "ok"
            /\ (~sign /\ precision = 0 /\ 0 <= val /\ val < 10 ^ length) =>
                  /\ result.status = "ok"
                  /\ Len(result.val[1]) = length
                  /\ \A i \in 1..length : IsDigit(result.val[1][i])
                  /\ DigitsVal(result.val[1]) = val
            /\ sign => result = Ok(<<(<<(IF val < 0 THEN "-" ELSE "+")>> \o ZeroPad(NatStr(mag * (10 ^ precision)), length))>>)

====
